---- MODULE Spec2Model ----
(***************************************************************************)
(* A model of velopyraptor's RaptorR10 (raptor.py): parameter derivation,  *)
(* assembly of the constraint matrix A, the decoding schedule solver       *)
(* (prepass, Phase I, U_lower elimination, U_upper clearing), the replay   *)
(* of the schedule over the payload buffer and LT encoding.                *)
(*                                                                         *)
(* A bitarray row is the set of its one-columns; a payload (numpy array)   *)
(* is the set of its one-bits; XOR is symmetric difference.  Lists are     *)
(* functions over 0 .. n-1, as the code indexes them.                      *)
(***************************************************************************)
EXTENDS Integers, Sequences, FiniteSets, TLC

(***************************************************************************)
(* Program constants.                                                      *)
(***************************************************************************)
MIN_K == 4
MAX_K == 8192

(***************************************************************************)
(* Bounds of the model.  The decoder is run with small parameters          *)
(* (k, s, h) so that every matrix over the modelled ESIs is explored.      *)
(***************************************************************************)
NumK == 2          \* k of the decoder instances explored
NumS == 2          \* s of the decoder instances explored
NumH == 0          \* h of the decoder instances explored
MaxN == 3          \* at most this many received symbols
MaxESI == 9        \* received and encoded ESIs range over 0 .. MaxESI
W == 1             \* payload width in bits

VARIABLES
    k, s, h, l, l_prime,   \* self.k, self.s, self.h, self.l, self.l_prime
    use_prepass,           \* self.use_prepass
    symbols,               \* self.symbols: list of [id, payload]
    i_symbols,             \* self.i_symbols (<<>> until calculated)
    op,                    \* the method being executed ("none" when idle)
    pc,                    \* position inside the method
    a,                     \* the matrix a handed to decoding_schedule
    o_degrees,             \* decoding_schedule's o_degrees
    schedule,              \* decoding_schedule's Schedule
    m,                     \* decoding_schedule's m = s + h + len(self.symbols)
    i, u, r,               \* decoding_schedule's i, u, r
    ones, column,          \* Phase I column alignment: the set ones, the pointer
    exc,                   \* the exception raised ("none" if none)
    ret,                   \* can_decode's last return value ("none" before)
    enc,                   \* the last symbol produced by ltenc ([id, payload])
    I0,                    \* history: the intermediate symbols the sender used
    received0,             \* history: the payloads as they were received
    a0,                    \* history: the matrix a as assembled by a()
    params                 \* set_params run: its input, lookups and outcome

vars == <<k, s, h, l, l_prime, use_prepass, symbols, i_symbols, op, pc, a,
          o_degrees, schedule, m, i, u, r, ones, column, exc, ret, enc, I0,
          received0, a0, params>>

None == 0 - 1      \* Python's None where an integer is expected

(***************************************************************************)
(* Bit-vector helpers.                                                     *)
(***************************************************************************)
Xor(x, y) == (x \ y) \cup (y \ x)

Min(x, y) == IF x < y THEN x ELSE y

Bits == 1 .. W
Payloads == SUBSET Bits

\* numpy.bitwise_xor(source, target, target): the new value of target
xor_arrays(source, target) == Xor(source, target)

\* The XOR of f[c] over the columns c of a set (the meaning of a row of A
\* applied to a vector of symbols).
RECURSIVE XorOver(_, _)
XorOver(cols, f) ==
    IF cols = {} THEN {}
    ELSE LET c == CHOOSE x \in cols : TRUE
         IN Xor(f[c], XorOver(cols \ {c}, f))

(***************************************************************************)
(* The triple generator.  random.R10, degree.R10 and the systematic index  *)
(* are tables outside this file; the table below stands in for their       *)
(* composition: a fixed triple (d, a, b) per ESI with d >= 1,              *)
(* a in [1, L'-1] and b in [0, L'-1].                                      *)
(***************************************************************************)
ESIs == 0 .. MaxESI

TripleTable ==
    << <<1, 1, 0>>, <<1, 2, 1>>, <<2, 1, 0>>, <<2, 2, 1>>, <<2, 1, 2>>,
       <<3, 1, 4>>, <<3, 2, 3>>, <<4, 1, 0>>, <<10, 3, 2>>, <<1, 4, 4>>,
       <<2, 3, 0>>, <<1, 1, 2>> >>

triple(id) == TripleTable[id + 1]

(***************************************************************************)
(* lt_row and ltenc.  Both walk b <- (b + a) % l_prime, skipping values    *)
(* >= l; lt_row sets a bit per visited column, ltenc XORs the visited      *)
(* intermediate symbols one after the other.                               *)
(***************************************************************************)
\* while b >= self.l: b = (b + a) % self.l_prime
RECURSIVE skip_b(_, _)
skip_b(b, aa) == IF b >= l THEN skip_b((b + aa) % l_prime, aa) ELSE b

\* a plausible slip: self.l for self.l_prime in the step of the for loop
RECURSIVE lt_b_mod_l(_, _, _)
lt_b_mod_l(aa, b, j) ==
    IF j = 0 THEN skip_b(b, aa)
    ELSE skip_b((lt_b_mod_l(aa, b, j - 1) + aa) % l, aa)

\* the b of loop iteration j (j = 0 is the column before the for loop)
RECURSIVE lt_b(_, _, _)
lt_b(aa, b, j) ==
    IF j = 0 THEN skip_b(b, aa)
    ELSE skip_b((lt_b(aa, b, j - 1) + aa) % l_prime, aa)

\* lines 564-573: the columns lt_row sets for the triple t = (d, a, b)
lt_row_bits(t) == { lt_b(t[2], t[3], j) : j \in 0 .. (Min(t[1], l) - 1) }

lt_row(esi) == lt_row_bits(triple(esi))

\* result after loop iteration j of ltenc, from the intermediate symbols isym
RECURSIVE ltenc_acc(_, _, _, _)
ltenc_acc(isym, aa, b, j) ==
    IF j = 0 THEN isym[lt_b(aa, b, 0)]
    ELSE xor_arrays(isym[lt_b(aa, b, j)], ltenc_acc(isym, aa, b, j - 1))

\* lines 251-261: the result of ltenc for the triple t = (d, a, b)
ltenc_result(isym, t) == ltenc_acc(isym, t[2], t[3], Min(t[1], l) - 1)

ltenc_of(isym, id) == ltenc_result(isym, triple(id))

ltenc(id) == ltenc_of(i_symbols, id)

(***************************************************************************)
(* The precode rows.                                                       *)
(***************************************************************************)
\* ldpc(k, s): row rw of G_LDPC, the source columns whose three marks hit rw
ldpc(kk, ss, rw) ==
    { ii \in 0 .. (kk - 1) :
        LET aa == 1 + ((ii \div ss) % (ss - 1))
            b1 == ii % ss
            b2 == (b1 + aa) % ss
            b3 == (b2 + aa) % ss
        IN rw \in {b1, b2, b3} }

\* gray.SEQUENCE[hp][j] is a table outside this file: the j-th number
\* (from 0) of the Gray sequence g(n) = n XOR floor(n / 2) that has exactly
\* hp one-bits.
RECURSIVE PopCount(_)
PopCount(n) == IF n = 0 THEN 0 ELSE (n % 2) + PopCount(n \div 2)

RECURSIVE BitXor(_, _)
BitXor(x, y) ==
    IF x = 0 THEN y
    ELSE IF y = 0 THEN x
    ELSE ((x + y) % 2) + 2 * BitXor(x \div 2, y \div 2)

RECURSIVE GrayFrom(_, _, _)
GrayFrom(hp, j, n) ==
    LET g == BitXor(n, n \div 2)
    IN IF PopCount(g) = hp
       THEN (IF j = 0 THEN g ELSE GrayFrom(hp, j - 1, n + 1))
       ELSE GrayFrom(hp, j, n + 1)

GraySequence(hp, j) == GrayFrom(hp, j, 0)

\* check_nth_bit(n, number)
check_nth_bit(n, number) == ((number \div (2 ^ n)) % 2) = 1

\* half(k, S, H, H_HALF): row hh of G_HDPC
half(kk, SS, HH, H_HALF, hh) ==
    { j \in 0 .. (kk + SS - 1) : check_nth_bit(hh, GraySequence(H_HALF, j)) }

\* self.h_prime = ceil(h / 2.0)
h_prime == (h + 1) \div 2

\* ldpc_section: ldpc[i] + identity[i] + zero[i]
ldpc_section == [rw \in 0 .. (s - 1) |-> ldpc(k, s, rw) \cup {k + rw}]

\* hdpc_section: half[i] + identity[i]
hdpc_section ==
    [rw \in 0 .. (h - 1) |-> half(k, s, h, h_prime, rw) \cup {k + s + rw}]

\* lt_section: one lt_row per held symbol, in list order
lt_section(syms) == [j \in 0 .. (Len(syms) - 1) |-> lt_row(syms[j + 1].id)]

\* a(): the three sections appended
A_of(syms) ==
    [rw \in 0 .. (s + h + Len(syms) - 1) |->
        IF rw < s THEN ldpc_section[rw]
        ELSE IF rw < s + h THEN hdpc_section[rw - s]
        ELSE lt_section(syms)[rw - s - h]]

(***************************************************************************)
(* The schedule recorder (schedule.py, outside this file).  c and d are    *)
(* the column and row permutations; an XOR is recorded as                  *)
(* (source, target) in terms of the rows of the untouched buffer.          *)
(***************************************************************************)
NewSchedule(ll, mm) ==
    [xors |-> <<>>,
     c |-> [x \in 0 .. (ll - 1) |-> x],
     d |-> [x \in 0 .. (mm - 1) |-> x]]

schedule_xor(sch, r1, r2) ==
    [sch EXCEPT !.xors = Append(@, <<sch.d[r2], sch.d[r1]>>)]

schedule_exchange_row(sch, r1, r2) ==
    [sch EXCEPT !.d = [@ EXCEPT ![r1] = sch.d[r2], ![r2] = sch.d[r1]]]

schedule_exchange_column(sch, c1, c2) ==
    [sch EXCEPT !.c = [@ EXCEPT ![c1] = sch.c[c2], ![c2] = sch.c[c1]]]

(***************************************************************************)
(* Row and column operations.  st is the triple of objects the solver      *)
(* mutates: [a, o_degrees, schedule].                                      *)
(***************************************************************************)
\* a plausible slip: the operands of schedule.xor exchanged
xor_row_swapped(st, r1, r2) ==
    [st EXCEPT !.a[r1] = Xor(@, st.a[r2]),
               !.schedule = schedule_xor(@, r2, r1)]

\* xor_row: a[r1] ^= a[r2]; schedule.xor(r1, r2)
xor_row(st, r1, r2) ==
    [st EXCEPT !.a[r1] = Xor(@, st.a[r2]),
               !.schedule = schedule_xor(@, r1, r2)]

\* one row with the bits of columns c1 and c2 exchanged
swap_bits(row, c1, c2) ==
    { IF x = c1 THEN c2 ELSE IF x = c2 THEN c1 ELSE x : x \in row }

\* a plausible slip: "for i in xrange(1, len(a))", row 0 left out of the
\* exchange
exchange_column_from_one(st, c1, c2) ==
    [st EXCEPT !.a = [rw \in DOMAIN st.a |->
                         IF rw = 0 THEN st.a[rw]
                         ELSE swap_bits(st.a[rw], c1, c2)],
               !.schedule = schedule_exchange_column(@, c1, c2)]

\* exchange_column: the bits of columns c1 and c2 exchanged in every row;
\* schedule.exchange_column(c1, c2)
exchange_column(st, c1, c2) ==
    [st EXCEPT !.a = [rw \in DOMAIN st.a |-> swap_bits(st.a[rw], c1, c2)],
               !.schedule = schedule_exchange_column(@, c1, c2)]

exchange_row(st, r1, r2) ==
    [st EXCEPT !.a = [@ EXCEPT ![r1] = st.a[r2], ![r2] = st.a[r1]],
               !.o_degrees = [@ EXCEPT ![r1] = st.o_degrees[r2],
                                       ![r2] = st.o_degrees[r1]],
               !.schedule = schedule_exchange_row(@, r1, r2)]

\* "if a[row][column]: xor_row(a, row, column, schedule)", the body shared
\* by the elimination loops
xor_if_set(st, rw, col) ==
    IF col \in st.a[rw] THEN xor_row(st, rw, col) ELSE st

\* the same body over the rows lo .. hi - 1 in ascending order
RECURSIVE xor_rows(_, _, _, _)
xor_rows(st, lo, hi, col) ==
    IF lo >= hi THEN st
    ELSE xor_rows(xor_if_set(st, lo, col), lo + 1, hi, col)

(***************************************************************************)
(* prepass: a single pass over the row pairs (pi, pj), pi < pj.            *)
(***************************************************************************)
\* the pair (pi, pj): "if new_row.count() + 2 < count: xor_row(a, j, i)"
prepass_pair(st, pi, pj) ==
    LET count == Cardinality(st.a[pj])
        new_row == Xor(st.a[pi], st.a[pj])
    IN IF Cardinality(new_row) + 2 < count THEN xor_row(st, pj, pi) ELSE st

\* the pairs from (pi, pj) on; the state after a pair is computed once and
\* handed on as a value
RECURSIVE prepass_from(_, _, _)
prepass_from(st, pi, pj) ==
    LET n == Cardinality(DOMAIN st.a)
    IN IF pi >= n THEN st
       ELSE IF pj >= n THEN prepass_from(st, pi + 1, pi + 2)
       ELSE CHOOSE res \in { prepass_from(nxt, pi, pj + 1) :
                                 nxt \in {prepass_pair(st, pi, pj)} } : TRUE

\* a plausible slip: the prepass hands its XOR to the schedule with the
\* two rows exchanged
RECURSIVE prepass_from_swapped(_, _, _)
prepass_from_swapped(st, pi, pj) ==
    LET n == Cardinality(DOMAIN st.a)
    IN IF pi >= n THEN st
       ELSE IF pj >= n THEN prepass_from_swapped(st, pi + 1, pi + 2)
       ELSE LET count == Cardinality(st.a[pj])
                new_row == Xor(st.a[pi], st.a[pj])
            IN prepass_from_swapped(
                   IF Cardinality(new_row) + 2 < count
                   THEN xor_row_swapped(st, pj, pi) ELSE st,
                   pi, pj + 1)

prepass_swapped(st) == prepass_from_swapped(st, 0, 1)

prepass(st) == prepass_from(st, 0, 1)

(***************************************************************************)
(* Phase I row selection.                                                  *)
(***************************************************************************)
\* v_row.count(): the ones of row rw within columns [ii, l - uu)
v_count(aa, rw, ii, uu) == Cardinality(aa[rw] \cap (ii .. (l - uu - 1)))

\* rows_with_min_r: (min_r, rows_with_min_r); min_r stays None when no row
\* of V has a one.  The list is ascending; it is kept as a set.
rows_with_min_r(aa, mm, ii, uu) ==
    LET nz == { rw \in ii .. (mm - 1) : v_count(aa, rw, ii, uu) # 0 }
    IN IF nz = {} THEN [r |-> None, rows |-> {}]
       ELSE LET min_r == CHOOSE x \in { v_count(aa, rw, ii, uu) : rw \in nz } :
                            \A rw \in nz : x <= v_count(aa, rw, ii, uu)
            IN [r |-> min_r,
                rows |-> { rw \in nz : v_count(aa, rw, ii, uu) = min_r }]

\* a plausible slip: "min_degree = 0" for "min_degree = m + 1", so that no
\* row is ever below it
min_degree_row_from_zero(aa, od, mm, ii, uu, rows_with_r) ==
    LET below == { rw \in rows_with_r : od[rw] < 0 }
    IN IF below = {} THEN None
       ELSE CHOOSE rw \in below :
                \A x \in below :
                    od[rw] < od[x] \/ (od[rw] = od[x] /\ rw <= x)

\* min_degree_row: the first row of the list whose original degree is the
\* smallest, starting from min_degree = m + 1; None when no row is below it
min_degree_row(aa, od, mm, ii, uu, rows_with_r) ==
    LET below == { rw \in rows_with_r : od[rw] < mm + 1 }
    IN IF below = {} THEN None
       ELSE CHOOSE rw \in below :
                \A x \in below :
                    od[rw] < od[x] \/ (od[rw] = od[x] /\ rw <= x)

\* the vertices reachable from the set S along the edges E
RECURSIVE Reach(_, _)
Reach(S, E) ==
    LET S2 == S \cup UNION { e \in E : e \cap S # {} }
    IN IF S2 = S THEN S ELSE Reach(S2, E)

\* row_from_graph: the rows it can return.  networkx.Graph is a simple
\* graph: add_edge on an existing pair of vertices keeps one edge and
\* overwrites its row_index.  The order of the components and of a
\* component's edges is the library's, so any component with the largest
\* len(edges) can be the first found and any of its edges the first listed.
row_from_graph(aa, mm, ii, uu, rows_with_r) ==
    LET vertices(rw) == aa[rw] \cap (ii .. (l - uu - 1))
        edges == { vertices(rw) : rw \in rows_with_r }
        row_index(e) == CHOOSE rw \in rows_with_r :
                            /\ vertices(rw) = e
                            /\ \A x \in rows_with_r : vertices(x) = e => x <= rw
        components == { Reach({v}, edges) : v \in UNION edges }
        size(cc) == Cardinality({ e \in edges : e \subseteq cc })
        largest == { cc \in components : \A c2 \in components : size(c2) <= size(cc) }
    IN { row_index(e) : e \in { x \in edges : \E cc \in largest : x \subseteq cc } }

(***************************************************************************)
(* U_lower elimination, U_upper clearing (the code after Phase I).         *)
(* Each returns [st, exc].                                                 *)
(***************************************************************************)
IndexError == "IndexError"
TypeError == "TypeError"
NameError == "NameError"
KeyError == "KeyError"
NoNonzeroRow == "RaptorR10DecodingScheduleException: No nonzero row to choose from v"
ULowerRank == "RaptorR10DecodingScheduleException: U lower is of less rank"

\* for column in xrange(l - u, l)
RECURSIVE u_lower(_, _, _)
u_lower(st, mm, col) ==
    IF col >= l THEN [st |-> st, exc |-> "none"]
    ELSE IF col >= mm THEN [st |-> st, exc |-> IndexError]  \* a[column]
    ELSE LET below == { rw \in (col + 1) .. (mm - 1) : col \in st.a[rw] }
             first == CHOOSE rw \in below : \A x \in below : rw <= x
             st1 == IF col \notin st.a[col] /\ below # {}
                    THEN exchange_row(st, col, first) ELSE st
         IN IF col \notin st1.a[col]
            THEN [st |-> st1, exc |-> ULowerRank]
            ELSE u_lower(xor_rows(st1, col + 1, mm, col), mm, col + 1)

\* for column in xrange(l - 1, l - u - 1, -1): for row in xrange(i, column)
RECURSIVE u_lower_back(_, _, _, _)
u_lower_back(st, ii, uu, col) ==
    IF col < l - uu THEN st
    ELSE u_lower_back(xor_rows(st, ii, col, col), ii, uu, col - 1)

\* for column in xrange(l - u, l) of one row rw of the top i rows
RECURSIVE u_upper_row(_, _, _)
u_upper_row(st, rw, col) ==
    IF col >= l THEN st
    ELSE u_upper_row(xor_if_set(st, rw, col), rw, col + 1)

\* a plausible slip: for row in xrange(1, i), the first row left uncleared
RECURSIVE u_upper_from_one(_, _, _, _)
u_upper_from_one(st, ii, uu, rw) ==
    IF rw = 0 THEN u_upper_from_one(st, ii, uu, 1)
    ELSE IF rw >= ii THEN st
    ELSE u_upper_from_one(u_upper_row(st, rw, l - uu), ii, uu, rw + 1)

\* for row in xrange(i)
RECURSIVE u_upper(_, _, _, _)
u_upper(st, ii, uu, rw) ==
    IF rw >= ii THEN st
    ELSE u_upper(u_upper_row(st, rw, l - uu), ii, uu, rw + 1)

\* decoding_schedule from the end of Phase I to its return
after_phase_one(st, mm, ii, uu) ==
    LET low == u_lower(st, mm, l - uu)
    IN IF low.exc # "none" THEN low
       ELSE [st |-> u_upper(u_lower_back(low.st, ii, uu, l - 1), ii, uu, 0),
             exc |-> "none"]

(***************************************************************************)
(* calculate_d and the replay of the schedule.                             *)
(***************************************************************************)
\* calculate_d: s + h zero rows, then the payload objects of self.symbols
calculate_d(syms) ==
    [rw \in 0 .. (s + h + Len(syms) - 1) |->
        IF rw < s + h THEN {} ELSE syms[rw - s - h + 1].payload]

\* for xor_row, target_row in schedule.xors: xor_arrays(D[xor_row], D[target_row])
RECURSIVE replay(_, _)
replay(D, xs) ==
    IF xs = <<>> THEN D
    ELSE LET p == Head(xs)
         IN replay([D EXCEPT ![p[2]] = xor_arrays(D[p[1]], @)], Tail(xs))

\* a plausible slip: self.i_symbols[i] = D[schedule.d[i]], the column
\* permutation forgotten
place_i_symbols_no_c(D, sch) ==
    [col \in 0 .. (l - 1) |-> D[sch.d[col]]]

\* self.i_symbols[schedule.c[i]] = D[schedule.d[i]] for i in xrange(l)
place_i_symbols(D, sch) ==
    [col \in 0 .. (l - 1) |->
        D[sch.d[CHOOSE p \in 0 .. (l - 1) : sch.c[p] = col]]]

(***************************************************************************)
(* The decoder as a state machine.  pc is the position inside the running  *)
(* method: "idle" (no method running), "phase1" (head of the Phase I       *)
(* loop), "align" (the column alignment loop), "rest" (after Phase I),     *)
(* "scheduled" (decoding_schedule returned), "caught" (inside can_decode's *)
(* except clause), "done" (calculate_i_symbols returned), "failed" (an     *)
(* exception left the method).                                             *)
(***************************************************************************)
St == [a |-> a, o_degrees |-> o_degrees, schedule |-> schedule]

SetSt(st) ==
    /\ a' = st.a
    /\ o_degrees' = st.o_degrees
    /\ schedule' = st.schedule

self_params == <<k, s, h, l, l_prime, use_prepass, params>>

\* the locals of a finished call are gone
DropLocals ==
    /\ a' = <<>> /\ o_degrees' = <<>> /\ schedule' = <<>> /\ a0' = <<>>
    /\ m' = 0 /\ i' = 0 /\ u' = 0 /\ r' = 0 /\ ones' = {} /\ column' = 0

\* a plausible slip: "except RaptorR10DecodingScheduleException:" in
\* can_decode, which lets every other exception out
RaiseNarrow(e) ==
    /\ exc' = e
    /\ pc' = IF op = "can_decode" /\ e \in {NoNonzeroRow, ULowerRank}
             THEN "caught" ELSE "failed"

\* raise e: can_decode's bare except catches it, calculate_i_symbols lets it out
Raise(e) ==
    /\ exc' = e
    /\ pc' = IF op = "can_decode" THEN "caught" ELSE "failed"

\* decoding_schedule(aa), lines 394-406, up to the head of the Phase I loop;
\* mm is s + h + len(self.symbols)
EnterDecodingSchedule(aa, mm) ==
    LET st0 == [a |-> aa,
                o_degrees |-> [rw \in DOMAIN aa |-> Cardinality(aa[rw])],
                schedule |-> NewSchedule(l, mm)]
        st1 == IF use_prepass THEN prepass(st0) ELSE st0
    IN /\ SetSt(st1)
       /\ a0' = aa
       /\ m' = mm
       /\ i' = 0
       /\ u' = 0
       /\ pc' = IF 0 < l THEN "phase1" ELSE "rest"
       /\ exc' = "none"
       /\ UNCHANGED <<r, ones, column>>

\* the caller appends a received symbol: self.symbols.append((id, payload))
AppendSymbol(id) ==
    /\ pc = "idle"
    /\ Len(symbols) < MaxN
    /\ LET payload == XorOver(lt_row(id), I0)
       IN /\ symbols' = Append(symbols, [id |-> id, payload |-> payload])
          /\ received0' = Append(received0, payload)
    /\ ret' = "none"
    /\ exc' = "none"
    /\ UNCHANGED <<self_params, i_symbols, op, pc, a, o_degrees, schedule, m,
                   i, u, r, ones, column, enc, I0, a0>>

\* can_decode(): try: a = self.a(); self.decoding_schedule(a)
CanDecodeCall ==
    /\ pc = "idle"
    /\ op' = "can_decode"
    /\ ret' = "none"
    /\ EnterDecodingSchedule(A_of(symbols), s + h + Len(symbols))
    /\ UNCHANGED <<self_params, symbols, i_symbols, enc, I0, received0>>

\* calculate_i_symbols(): the length check, then decoding_schedule(self.a()).
\* The name raised at line 368 is not defined anywhere: evaluating it is a
\* NameError.
CalculateCall ==
    /\ pc = "idle"
    /\ op' = "calculate_i_symbols"
    /\ ret' = "none"
    /\ IF Len(symbols) < k
       THEN /\ exc' = NameError
            /\ pc' = "failed"
            /\ UNCHANGED <<a, o_degrees, schedule, m, i, u, r, ones, column, a0>>
       ELSE EnterDecodingSchedule(A_of(symbols), s + h + Len(symbols))
    /\ UNCHANGED <<self_params, symbols, i_symbols, enc, I0, received0>>

\* Phase I, lines 412-437: the row choice, the row exchange, the set ones
\* and the exchange that brings a one to column i
PhaseOneSelect ==
    /\ pc = "phase1"
    /\ LET rr == rows_with_min_r(a, m, i, u)
           rows == IF rr.r = 2
                   THEN row_from_graph(a, m, i, u, rr.rows)
                   ELSE {min_degree_row(a, o_degrees, m, i, u, rr.rows)}
       IN \E row \in rows :
            IF rr.r = 0 \/ i >= m \/ row = None
            THEN /\ Raise(IF rr.r = 0 THEN NoNonzeroRow
                          ELSE IF i >= m THEN IndexError   \* temp = a[r1]
                          ELSE TypeError)                  \* a[r1] = a[None]
                 /\ UNCHANGED <<a, o_degrees, schedule, r, ones, column>>
            ELSE LET st1 == exchange_row(St, i, row)
                     ones0 == st1.a[i] \cap (i .. (l - u - 1))
                 IN /\ r' = rr.r
                    /\ column' = l - u - 1
                    /\ pc' = "align"
                    /\ exc' = exc
                    /\ IF i \notin st1.a[i]
                       THEN \E cc \in ones0 :       \* column = ones.pop()
                               /\ SetSt(exchange_column(st1, i, cc))
                               /\ ones' = ones0 \ {cc}
                       ELSE /\ SetSt(st1)
                            /\ ones' = ones0 \ {i}
    /\ UNCHANGED <<self_params, symbols, i_symbols, op, m, i, u, ret, enc, I0,
                   received0, a0>>

\* Phase I, lines 441-446: one turn of the alignment loop
PhaseOneAlign ==
    /\ pc = "align"
    /\ column > i /\ ones # {}
    /\ IF column \notin a[i]
       THEN \E cc \in ones :                        \* ones.pop()
               /\ SetSt(exchange_column(St, column, cc))
               /\ ones' = ones \ {cc}
               /\ column' = column - 1
               /\ UNCHANGED <<pc, exc>>
       ELSE IF column \in ones
       THEN /\ ones' = ones \ {column}
            /\ column' = column - 1
            /\ UNCHANGED <<a, o_degrees, schedule, pc, exc>>
       ELSE /\ Raise(KeyError)                      \* ones.remove(column)
            /\ UNCHANGED <<a, o_degrees, schedule, ones, column>>
    /\ UNCHANGED <<self_params, symbols, i_symbols, op, m, i, u, r, ret, enc,
                   I0, received0, a0>>

\* Phase I, lines 449-453: clear column i below row i, then i += 1, u += r - 1
PhaseOneEliminate ==
    /\ pc = "align"
    /\ ~(column > i /\ ones # {})
    /\ SetSt(xor_rows(St, i + 1, m, i))
    /\ i' = i + 1
    /\ u' = u + r - 1
    /\ pc' = IF i' + u' < l THEN "phase1" ELSE "rest"
    /\ UNCHANGED <<self_params, symbols, i_symbols, op, m, r, ones, column,
                   exc, ret, enc, I0, received0, a0>>

\* lines 458-493: U_lower, U_upper and the return of the schedule
FinishSchedule ==
    /\ pc = "rest"
    /\ LET res == after_phase_one(St, m, i, u)
       IN /\ SetSt(res.st)
          /\ IF res.exc # "none"
             THEN Raise(res.exc)
             ELSE pc' = "scheduled" /\ exc' = exc
    /\ UNCHANGED <<self_params, symbols, i_symbols, op, m, i, u, r, ones,
                   column, ret, enc, I0, received0, a0>>

\* can_decode: return True
CanDecodeTrue ==
    /\ pc = "scheduled" /\ op = "can_decode"
    /\ ret' = "True"
    /\ pc' = "idle" /\ op' = "none" /\ exc' = "none"
    /\ DropLocals
    /\ UNCHANGED <<self_params, symbols, i_symbols, enc, I0, received0>>

\* can_decode: except: pass; return False.  exc keeps the swallowed
\* exception until the next call.
CanDecodeFalse ==
    /\ pc = "caught"
    /\ ret' = "False"
    /\ pc' = "idle" /\ op' = "none" /\ exc' = exc
    /\ DropLocals
    /\ UNCHANGED <<self_params, symbols, i_symbols, enc, I0, received0>>

\* calculate_i_symbols, lines 376-384.  D holds the payload objects of
\* self.symbols themselves, so the replay writes into them.
Replay ==
    /\ pc = "scheduled" /\ op = "calculate_i_symbols"
    /\ LET D == replay(calculate_d(symbols), schedule.xors)
       IN /\ i_symbols' = place_i_symbols(D, schedule)
          /\ symbols' = [j \in 1 .. Len(symbols) |->
                            [symbols[j] EXCEPT !.payload = D[s + h + j - 1]]]
    /\ pc' = "done"
    /\ UNCHANGED <<self_params, op, a, o_degrees, schedule, m, i, u, r, ones,
                   column, exc, ret, enc, I0, received0, a0>>

\* ltenc(id) on the calculated intermediate symbols
Encode(id) ==
    /\ pc = "done"
    /\ enc' = [id |-> id, payload |-> ltenc(id)]
    /\ UNCHANGED <<self_params, symbols, i_symbols, op, pc, a, o_degrees,
                   schedule, m, i, u, r, ones, column, exc, ret, I0,
                   received0, a0>>

(***************************************************************************)
(* primes.next (a table outside this file): the smallest prime >= n.       *)
(***************************************************************************)
RECURSIVE HasDivisor(_, _)
HasDivisor(n, dd) ==
    IF dd * dd > n THEN FALSE
    ELSE IF n % dd = 0 THEN TRUE
    ELSE HasDivisor(n, dd + 1)

IsPrime(n) == n >= 2 /\ ~HasDivisor(n, 2)

RECURSIVE NextPrime(_)
NextPrime(n) == IF IsPrime(n) THEN n ELSE NextPrime(n + 1)

\* the intermediate symbols a sender can have used: every precode row
\* XORs to zero over them
Intermediates ==
    { f \in [0 .. (l - 1) -> Payloads] :
        /\ \A rw \in DOMAIN ldpc_section : XorOver(ldpc_section[rw], f) = {}
        /\ \A rw \in DOMAIN hdpc_section : XorOver(hdpc_section[rw], f) = {} }

Init ==
    /\ k = NumK /\ s = NumS /\ h = NumH
    /\ l = NumK + NumS + NumH
    /\ l_prime = NextPrime(NumK + NumS + NumH)
    /\ use_prepass \in BOOLEAN
    /\ symbols = <<>>
    /\ i_symbols = <<>>
    /\ op = "none" /\ pc = "idle"
    /\ a = <<>> /\ o_degrees = <<>> /\ schedule = <<>> /\ a0 = <<>>
    /\ m = 0 /\ i = 0 /\ u = 0 /\ r = 0 /\ ones = {} /\ column = 0
    /\ exc = "none" /\ ret = "none"
    /\ enc = <<>>
    /\ I0 \in Intermediates
    /\ received0 = <<>>
    /\ params = <<>>

Next ==
    \/ \E id \in ESIs : AppendSymbol(id)
    \/ CanDecodeCall
    \/ CalculateCall
    \/ PhaseOneSelect
    \/ PhaseOneAlign
    \/ PhaseOneEliminate
    \/ FinishSchedule
    \/ CanDecodeTrue
    \/ CanDecodeFalse
    \/ Replay
    \/ \E id \in ESIs : Encode(id)

Spec == Init /\ [][Next]_vars

(***************************************************************************)
(* decoding_schedule as a function of its matrix: every matrix of MatL     *)
(* columns with MatL - 1 .. MatL + MatExtra rows, handed to                *)
(* decoding_schedule of an instance whose s + h + len(symbols) is the      *)
(* number of rows.                                                         *)
(***************************************************************************)
MatL == 3
MatExtra == 1

InitMatrix ==
    /\ k = 0 /\ s = 0 /\ h = 0
    /\ l = MatL
    /\ l_prime = NextPrime(MatL)
    /\ use_prepass \in BOOLEAN
    /\ symbols = <<>> /\ i_symbols = <<>>
    /\ op = "decoding_schedule" /\ pc = "call"
    /\ m \in (MatL - 1) .. (MatL + MatExtra)
    /\ a \in [0 .. (m - 1) -> SUBSET (0 .. (MatL - 1))]
    /\ a0 = a
    /\ o_degrees = <<>> /\ schedule = <<>>
    /\ i = 0 /\ u = 0 /\ r = 0 /\ ones = {} /\ column = 0
    /\ exc = "none" /\ ret = "none" /\ enc = <<>>
    /\ I0 = <<>> /\ received0 = <<>> /\ params = <<>>

MatrixCall ==
    /\ pc = "call"
    /\ EnterDecodingSchedule(a, m)
    /\ UNCHANGED <<self_params, symbols, i_symbols, op, ret, enc, I0, received0>>

NextMatrix ==
    \/ MatrixCall
    \/ PhaseOneSelect
    \/ PhaseOneAlign
    \/ PhaseOneEliminate
    \/ FinishSchedule

SpecMatrix == InitMatrix /\ [][NextMatrix]_vars

(***************************************************************************)
(* set_params(k), lines 134-183.  The tables primes, half and              *)
(* systematic_index are outside this file; params says which lookups the   *)
(* tables can answer (a lookup that cannot be answered returns None), and  *)
(* receives the arguments of the message of the range check.               *)
(***************************************************************************)
KMargin == 3

KInputs ==
    ((MIN_K - KMargin) .. (MIN_K + KMargin))
        \cup ((MAX_K - KMargin) .. (MAX_K + KMargin))

ParameterErrorK == "RaptorR10ParameterException: k must be between MIN_K and MAX_K"
ParameterErrorS == "RaptorR10ParameterException: No s found"

\* a plausible slip: "<=" for "<" in the lower end of the range check
k_out_of_range_inclusive(kk) == kk <= MIN_K \/ kk > MAX_K

\* if self.k < MIN_K or self.k > MAX_K
k_out_of_range(kk) == kk < MIN_K \/ kk > MAX_K

\* int(ceil((1 + sqrt(1 + 8k)) / 2)): the smallest positive x with
\* x * (x - 1) >= 2k (the float computation is exact for k <= MAX_K)
RECURSIVE x_from(_, _)
x_from(kk, x) == IF x * (x - 1) >= 2 * kk THEN x ELSE x_from(kk, x + 1)

\* math.ceil(0.01 * k), which equals ceil(k / 100) for every k in
\* MIN_K .. MAX_K
ceil_hundredth(kk) == (kk + 99) \div 100

RECURSIVE choose(_, _)
choose(n, j) == IF j = 0 THEN 1 ELSE (choose(n - 1, j - 1) * n) \div j

\* half.next(n): the smallest H with choose(H, ceil(H / 2)) >= n
RECURSIVE half_next(_, _)
half_next(n, hh) ==
    IF choose(hh, (hh + 1) \div 2) >= n THEN hh ELSE half_next(n, hh + 1)

SetParams(kk) ==
    /\ pc = "new"
    /\ k' = kk
    /\ IF k_out_of_range(kk)
       THEN /\ exc' = ParameterErrorK
            /\ params' = [params EXCEPT !.message = <<kk, MIN_K, MAX_K>>]
            /\ pc' = "failed"
            /\ UNCHANGED <<s, h, l, l_prime>>
       ELSE LET x == x_from(kk, 1)
                ss == IF params.primes_s
                      THEN NextPrime(ceil_hundredth(kk) + x) ELSE None
                hh == IF params.half THEN half_next(kk + ss, 1) ELSE None
            IN /\ s' = ss
               /\ UNCHANGED params
               /\ IF ss = None                      \* if not self.s: raise
                  THEN /\ exc' = ParameterErrorS
                       /\ pc' = "failed"
                       /\ UNCHANGED <<h, l, l_prime>>
                  ELSE /\ h' = hh
                       /\ IF hh = None
                          \* the exception of line 169 is built, not raised;
                          \* line 174 divides None by 2.0
                          THEN /\ exc' = TypeError
                               /\ pc' = "failed"
                               /\ UNCHANGED <<l, l_prime>>
                          ELSE /\ l' = kk + ss + hh
                               /\ l_prime' = IF params.primes_l
                                             THEN NextPrime(kk + ss + hh)
                                             ELSE None
                               /\ exc' = "none"
                               /\ pc' = "returned"
    /\ UNCHANGED <<use_prepass, symbols, i_symbols, op, a, o_degrees, schedule,
                   m, i, u, r, ones, column, ret, enc, I0, received0, a0>>

InitParams ==
    /\ k = None /\ s = None /\ h = None /\ l = None /\ l_prime = None
    /\ use_prepass = FALSE
    /\ symbols = <<>> /\ i_symbols = <<>>
    /\ op = "set_params" /\ pc = "new"
    /\ a = <<>> /\ o_degrees = <<>> /\ schedule = <<>> /\ a0 = <<>>
    /\ m = 0 /\ i = 0 /\ u = 0 /\ r = 0 /\ ones = {} /\ column = 0
    /\ exc = "none" /\ ret = "none" /\ enc = <<>>
    /\ I0 = <<>> /\ received0 = <<>>
    /\ params \in [primes_s : BOOLEAN, half : BOOLEAN, primes_l : BOOLEAN,
                   message : {<<>>}]

NextParams == \E kk \in KInputs : SetParams(kk)

SpecParams == InitParams /\ [][NextParams]_vars

(***************************************************************************)
(* The row choice of Phase I at r == 2: decoding_schedule on every matrix  *)
(* of GraphM rows and GraphL columns whose rows all have exactly two ones, *)
(* up to the first row exchange.                                           *)
(***************************************************************************)
GraphL == 5
GraphM == 5

InitGraph ==
    /\ k = 0 /\ s = 0 /\ h = 0
    /\ l = GraphL
    /\ l_prime = NextPrime(GraphL)
    /\ use_prepass = FALSE
    /\ symbols = <<>> /\ i_symbols = <<>>
    /\ op = "decoding_schedule" /\ pc = "call"
    /\ m = GraphM
    /\ a \in [0 .. (GraphM - 1) ->
                 { x \in SUBSET (0 .. (GraphL - 1)) : Cardinality(x) = 2 }]
    /\ a0 = a
    /\ o_degrees = <<>> /\ schedule = <<>>
    /\ i = 0 /\ u = 0 /\ r = 0 /\ ones = {} /\ column = 0
    /\ exc = "none" /\ ret = "none" /\ enc = <<>>
    /\ I0 = <<>> /\ received0 = <<>> /\ params = <<>>

\* the first turn of the Phase I loop only
FirstSelect == i = 0 /\ PhaseOneSelect

NextGraph ==
    \/ MatrixCall
    \/ FirstSelect

SpecGraph == InitGraph /\ [][NextGraph]_vars

(***************************************************************************)
(* lt_row and ltenc as functions of the triple: every l up to TripleL,     *)
(* every prime l_prime from l to TripleLPrime, every triple (d, a, b) with *)
(* d in 1 .. l + TripleExtraD, a in 1 .. l_prime - 1, b in 0 .. l_prime - 1 *)
(* (held in params) and every vector of intermediate symbols.  The row is  *)
(* kept as the only row of a, the payload in enc.                          *)
(***************************************************************************)
TripleL == 4
TripleLPrime == 7
TripleExtraD == 2

InitTriple ==
    /\ k = 0 /\ s = 0 /\ h = 0
    /\ l \in 1 .. TripleL
    /\ l_prime \in { n \in l .. TripleLPrime : IsPrime(n) }
    /\ use_prepass = FALSE
    /\ symbols = <<>>
    /\ i_symbols \in [0 .. (l - 1) -> Payloads]
    /\ op = "none" /\ pc = "idle"
    /\ a = <<>> /\ o_degrees = <<>> /\ schedule = <<>> /\ a0 = <<>>
    /\ m = 0 /\ i = 0 /\ u = 0 /\ r = 0 /\ ones = {} /\ column = 0
    /\ exc = "none" /\ ret = "none" /\ enc = <<>>
    /\ I0 = <<>> /\ received0 = <<>>
    /\ params \in ((1 .. (l + TripleExtraD)) \X (1 .. (l_prime - 1)))
                      \X (0 .. (l_prime - 1))

\* the triple (d, a, b) of this state
TheTriple == <<params[1][1], params[1][2], params[2]>>

\* lt_row on the triple
LtRowCall ==
    /\ pc = "idle" /\ a = <<>>
    /\ a' = [rw \in {0} |-> lt_row_bits(TheTriple)]
    /\ m' = 1
    /\ UNCHANGED <<self_params, symbols, i_symbols, op, pc, o_degrees,
                   schedule, i, u, r, ones, column, exc, ret, enc, I0,
                   received0, a0>>

\* ltenc on the triple
LtencCall ==
    /\ pc = "idle" /\ enc = <<>>
    /\ enc' = [id |-> None, payload |-> ltenc_result(i_symbols, TheTriple)]
    /\ UNCHANGED <<self_params, symbols, i_symbols, op, pc, a, o_degrees,
                   schedule, m, i, u, r, ones, column, exc, ret, I0,
                   received0, a0>>

NextTriple ==
    \/ LtRowCall
    \/ LtencCall

SpecTriple == InitTriple /\ [][NextTriple]_vars

(***************************************************************************)
(* The solver to its end, called directly or through can_decode, on every  *)
(* matrix of MatL columns and MatL .. MatL + MatExtra rows.  Each call is   *)
(* one thread running to completion, hence the weak fairness.              *)
(***************************************************************************)
InitSolver ==
    /\ k = 0 /\ s = 0 /\ h = 0
    /\ l = MatL
    /\ l_prime = NextPrime(MatL)
    /\ use_prepass \in BOOLEAN
    /\ symbols = <<>> /\ i_symbols = <<>>
    /\ op \in {"decoding_schedule", "can_decode"} /\ pc = "new"
    /\ m = 0 /\ a = <<>> /\ a0 = <<>>
    /\ o_degrees = <<>> /\ schedule = <<>>
    /\ i = 0 /\ u = 0 /\ r = 0 /\ ones = {} /\ column = 0
    /\ exc = "none" /\ ret = "none" /\ enc = <<>>
    /\ I0 = <<>> /\ received0 = <<>> /\ params = <<>>

\* the matrix the call is made on: mm rows of l columns
MatrixGiven(mm, aa) ==
    /\ pc = "new"
    /\ m' = mm
    /\ a' = aa
    /\ a0' = aa
    /\ pc' = "call"
    /\ UNCHANGED <<self_params, symbols, i_symbols, op, o_degrees, schedule,
                   i, u, r, ones, column, exc, ret, enc, I0, received0>>

NextSolver ==
    \/ /\ pc = "new"
       /\ \E mm \in MatL .. (MatL + MatExtra) :
              \E aa \in [0 .. (mm - 1) -> SUBSET (0 .. (MatL - 1))] :
                  MatrixGiven(mm, aa)
    \/ MatrixCall
    \/ PhaseOneSelect
    \/ PhaseOneAlign
    \/ PhaseOneEliminate
    \/ FinishSchedule
    \/ CanDecodeTrue
    \/ CanDecodeFalse

SpecSolver == InitSolver /\ [][NextSolver]_vars /\ WF_vars(NextSolver)

(***************************************************************************)
(* calculate_i_symbols called a second time on the same instance.  params  *)
(* keeps the intermediate symbols of the first call.                       *)
(***************************************************************************)
CalculateAgain ==
    /\ pc = "done" /\ params = <<>>
    /\ params' = <<i_symbols>>
    /\ EnterDecodingSchedule(A_of(symbols), s + h + Len(symbols))
    /\ UNCHANGED <<k, s, h, l, l_prime, use_prepass, symbols, i_symbols, op,
                   ret, enc, I0, received0>>

NextAgain ==
    \/ \E id \in ESIs : AppendSymbol(id)
    \/ CalculateCall
    \/ PhaseOneSelect
    \/ PhaseOneAlign
    \/ PhaseOneEliminate
    \/ FinishSchedule
    \/ Replay
    \/ CalculateAgain

SpecAgain == Init /\ [][NextAgain]_vars

(***************************************************************************)
(* Properties.                                                             *)
(***************************************************************************)
\* A has rank l over GF(2): no nonempty set of columns XORs to zero
FullColumnRank(aa) ==
    \A x \in (SUBSET (0 .. (l - 1))) \ {{}} :
        \E rw \in DOMAIN aa : Cardinality(aa[rw] \cap x) % 2 = 1

ReceivedIds == { symbols[j].id : j \in 1 .. Len(symbols) }

\* the payload buffer as calculate_d would build it from the payloads as
\* they were received
D0 ==
    [rw \in 0 .. (s + h + Len(received0) - 1) |->
        IF rw < s + h THEN {} ELSE received0[rw - s - h + 1]]

\* the schedule's XORs replayed on the untouched matrix
A0Replayed == replay(a0, schedule.xors)

\* the prepass changed the matrix of this run
PrepassFired ==
    LET st0 == [a |-> a0,
                o_degrees |-> [rw \in DOMAIN a0 |-> Cardinality(a0[rw])],
                schedule |-> NewSchedule(l, m)]
    IN prepass(st0).a # a0

IsDecodingScheduleError(e) == e \in {NoNonzeroRow, ULowerRank}

\* C1: round trip.  When calculate_i_symbols has completed on genuine
\* encodings of I0, ltenc(ESI_j) is the payload originally received for
\* ESI_j, for every held symbol j and for the last symbol ltenc produced;
\* with ESIs 0 .. k-1 received, ltenc at those ESIs gives the sender's
\* source symbols.
C1_RoundTrip ==
    pc = "done" =>
        /\ \A j \in 1 .. Len(symbols) : ltenc(symbols[j].id) = received0[j]
        /\ (enc # <<>> =>
               \A j \in 1 .. Len(symbols) :
                   symbols[j].id = enc.id => enc.payload = received0[j])
        /\ ((0 .. (k - 1)) \subseteq ReceivedIds =>
               \A e \in 0 .. (k - 1) : ltenc(e) = XorOver(lt_row(e), I0))

\* C1 witness: more than k symbols are held, one with an ESI >= k, whose
\* stored payload the replay has overwritten, and ltenc was run on its ESI
C1_Witness ==
    /\ pc = "done"
    /\ Len(symbols) > k
    /\ enc # <<>>
    /\ \E j \in 1 .. Len(symbols) :
          /\ symbols[j].id = enc.id
          /\ enc.id >= k
          /\ enc.payload # {}
          /\ symbols[j].payload # received0[j]

\* C2: whenever decoding_schedule returns on a matrix of m >= l rows, the
\* first l rows of the matrix are the l x l identity.
C2_Identity ==
    (pc = "scheduled" /\ m >= l) => \A p \in 0 .. (l - 1) : a[p] = {p}

\* C2 witness: a return on a matrix with more rows than columns, columns
\* deferred to U and upper-right entries cleared at the end
C2_Witness ==
    /\ pc = "scheduled"
    /\ m > l
    /\ u > 0
    /\ i > 0
    /\ Len(schedule.xors) > 2

\* C3: schedule faithfulness.  At every point of the solver, replaying the
\* recorded XORs alone on the untouched matrix and reading row d[p],
\* column c[q] gives entry (p, q) of the solver's matrix; and once the
\* schedule is complete, replaying them on the untouched payload buffer
\* gives at row d[p] the intermediate symbol of column c[p], which is what
\* calculate_i_symbols stores at i_symbols[c[p]].
C3_Faithful ==
    /\ pc \in {"phase1", "align", "rest", "scheduled", "done"} =>
          \A p \in 0 .. (m - 1) : \A q \in 0 .. (l - 1) :
              (q \in a[p]) <=> (schedule.c[q] \in A0Replayed[schedule.d[p]])
    /\ pc \in {"scheduled", "done"} /\ op = "calculate_i_symbols" =>
          \A p \in 0 .. (l - 1) :
              replay(D0, schedule.xors)[schedule.d[p]] = I0[schedule.c[p]]
    /\ pc = "done" =>
          \A p \in 0 .. (l - 1) :
              i_symbols[schedule.c[p]] = replay(D0, schedule.xors)[schedule.d[p]]

\* C3 witness: a completed calculation whose schedule has XORs and both a
\* row and a column exchanged
C3_Witness ==
    /\ pc = "done"
    /\ Len(schedule.xors) > 3
    /\ \E p \in 0 .. (l - 1) : schedule.d[p] # p
    /\ \E q \in 0 .. (l - 1) : schedule.c[q] # q
    /\ \E q \in 0 .. (l - 1) : I0[q] # {}

\* C4: prepass safety.  With use_prepass true or false, the decoder ends
\* successfully exactly when the assembled matrix has rank l, which does
\* not depend on use_prepass, and then the intermediate symbols are the
\* sender's, bit for bit.
C4_PrepassSafe ==
    /\ pc = "done" => i_symbols = I0
    /\ pc \in {"scheduled", "done"} => FullColumnRank(a0)
    /\ pc \in {"failed", "caught"} /\ Len(symbols) >= k => ~FullColumnRank(a0)

\* C4 witness: a successful run with use_prepass in which the prepass
\* XORed rows, on nonzero intermediate symbols
C4_Witness ==
    /\ pc = "done"
    /\ use_prepass
    /\ PrepassFired
    /\ \E q \in 0 .. (l - 1) : I0[q] # {}

\* C5: can_decode never lets an exception out; it returns a boolean, True
\* exactly when the schedule construction ended without an exception, and
\* False whenever fewer than k symbols are held.
C5_CanDecode ==
    /\ op = "can_decode" => pc # "failed"
    /\ (pc = "idle" /\ ret # "none") =>
          /\ ret \in {"True", "False"}
          /\ (ret = "True") <=> (exc = "none")
          /\ Len(symbols) < k => ret = "False"

\* C5 witness: can_decode returned False after swallowing an exception
\* that is not a decoding-schedule exception, with fewer than k symbols
C5_Witness ==
    /\ pc = "idle"
    /\ ret = "False"
    /\ Len(symbols) < k
    /\ exc \in {IndexError, TypeError}

\* C6 (as claimed): calculate_i_symbols with fewer than k symbols fails
\* with a decoding-schedule exception.
C6_ShortFailsWithScheduleError ==
    (op = "calculate_i_symbols" /\ pc = "failed" /\ Len(symbols) < k) =>
        IsDecodingScheduleError(exc)

\* C7 (as claimed): when Phase I finds no nonzero row in V while
\* i + u < l, the exception raised is "No nonzero row to choose from v".
C7_NoNonzeroRowRaised ==
    (pc \in {"failed", "caught"} /\ a # <<>> /\ i + u < l
        /\ rows_with_min_r(a, m, i, u).r = None) => exc = NoNonzeroRow

\* C8 (as claimed): whenever a lookup of set_params returns nothing (the
\* prime for S, the H of half.next, the prime for L'), set_params ends in
\* a ParameterError.
C8_MissingLookupIsParameterError ==
    (pc \in {"returned", "failed"} /\ ~k_out_of_range(k)) =>
        /\ ~params.primes_s => exc = ParameterErrorS
        /\ (params.primes_s /\ ~params.half) =>
              exc \in {ParameterErrorK, ParameterErrorS}
        /\ (params.primes_s /\ params.half /\ ~params.primes_l) =>
              exc \in {ParameterErrorK, ParameterErrorS}

\* C9: set_params(k) fails with the ParameterError of the range check,
\* whose message names the bounds 4 and 8192, exactly when k is outside
\* [4, 8192].
C9_RangeCheck ==
    pc \in {"returned", "failed"} =>
        /\ (k < 4 \/ k > 8192) <=> (exc = ParameterErrorK)
        /\ exc = ParameterErrorK => params.message = <<k, 4, 8192>>

\* C9 witness: set_params(3), the nearest value below the range, has been
\* rejected with the message of the range check
C9_Witness ==
    /\ pc = "failed"
    /\ k = 3
    /\ exc = ParameterErrorK
    /\ params.message = <<3, 4, 8192>>

\* the sets a row of weight two joins, seen as a multigraph on the
\* columns: one edge per candidate row
CandidateRows == { rw \in DOMAIN a0 : Cardinality(a0[rw]) = 2 }

ComponentOf(rw) == Reach(a0[rw], { a0[x] : x \in CandidateRows })

RowsIn(cc) == Cardinality({ x \in CandidateRows : a0[x] \subseteq cc })

\* C10 (as claimed): the row chosen at r == 2 lies in a component that
\* has the largest number of candidate rows, rows on the same two columns
\* counted separately.
C10_ChosenInLargestComponent ==
    (pc = "align" /\ r = 2 /\ i = 0 /\ u = 0) =>
        \A rw \in CandidateRows :
            RowsIn(ComponentOf(rw)) <= RowsIn(ComponentOf(schedule.d[0]))

\* the top-left i x i block of the matrix is the identity
TopLeftIdentity ==
    \A p \in 0 .. (i - 1) : \A q \in 0 .. (i - 1) : (q \in a[p]) <=> (p = q)

\* the alignment loop of the current iteration has ended
AlignmentDone == pc = "align" /\ ~(column > i /\ ones # {})

\* row i has a one at column i and its other r - 1 ones within V in the
\* rightmost r - 1 columns of V
RowAligned ==
    /\ i \in a[i]
    /\ a[i] \cap ((i + 1) .. (l - u - 1)) = (l - u - r + 1) .. (l - u - 1)

\* a step that changes the column permutation changes it inside
\* [i, l - u) only
ColumnsStayInV ==
    (schedule # <<>> /\ schedule' # <<>>) =>
        \A q \in 0 .. (l - 1) :
            schedule'.c[q] # schedule.c[q] => (q >= i /\ q < l - u)

\* C11: Phase I invariant.  During and after Phase I the top-left i x i
\* block is the identity; when the column alignment of an iteration has
\* ended, A[i][i] = 1 and the other r - 1 ones of row i within V are in the
\* rightmost r - 1 columns of V; and every column exchange touches only
\* columns in [i, l - u), so a column below i is never exchanged again.
C11_PhaseOne ==
    /\ [](pc \in {"phase1", "align", "rest", "scheduled"} => TopLeftIdentity)
    /\ [](AlignmentDone => RowAligned)
    /\ [][ColumnsStayInV]_vars

\* C11 witness: the alignment of a later iteration (i > 0) has ended on a
\* row with r = 2, after a column exchange that moved a column away from
\* its original place
C11_Witness ==
    /\ AlignmentDone
    /\ i > 0
    /\ r = 2
    /\ schedule.c[l - u - 1] # l - u - 1
    /\ schedule.c[0] # 0

\* C12: for a triple (d, a, b) with d >= 1, a in [1, l_prime - 1],
\* b in [0, l_prime - 1] and l_prime a prime >= l, lt_row returns a row
\* over the columns 0 .. l - 1 with exactly min(d, l) ones, and ltenc
\* returns the XOR of exactly the intermediate symbols at those columns.
C12_LtRowLtenc ==
    /\ a # <<>> =>
          /\ a[0] \subseteq 0 .. (l - 1)
          /\ Cardinality(a[0]) = Min(TheTriple[1], l)
    /\ (a # <<>> /\ enc # <<>>) => enc.payload = XorOver(a[0], i_symbols)

\* C12 witness: both have run on a triple whose walk wraps around l_prime
\* and skips values >= l, with d > l and nonzero symbols
C12_Witness ==
    /\ a # <<>> /\ enc # <<>>
    /\ l_prime > l
    /\ TheTriple[1] > l
    /\ TheTriple[2] > 1
    /\ TheTriple[3] >= l
    /\ l >= 3
    /\ enc.payload # {}

\* the call has ended: decoding_schedule returned or raised, can_decode
\* returned
Terminated ==
    \/ op = "decoding_schedule" /\ pc \in {"scheduled", "failed"}
    \/ pc = "idle" /\ ret # "none"

\* can_decode returns True from a returned schedule and False from a
\* caught exception
CanDecodeFollows ==
    /\ (pc = "scheduled" /\ pc' = "idle") => ret' = "True"
    /\ (pc = "caught" /\ pc' = "idle") => ret' = "False"

\* C13: solver completeness.  On every matrix with m >= l rows and l
\* columns, with or without prepass, decoding_schedule ends; it returns a
\* schedule exactly when the matrix has rank l over GF(2), and can_decode
\* is True exactly then.
C13_Complete ==
    /\ [](pc = "scheduled" => FullColumnRank(a0))
    /\ [](pc \in {"failed", "caught"} => ~FullColumnRank(a0))
    /\ [][CanDecodeFollows]_vars
    /\ (pc = "call" ~> Terminated)

\* C13 witness: can_decode is about to return True on a matrix of rank l
\* with more rows than columns whose first l rows are not of rank l, after
\* columns were deferred to U
C13_Witness ==
    /\ op = "can_decode" /\ pc = "scheduled"
    /\ m > l
    /\ u > 0
    /\ FullColumnRank(a0)
    /\ ~FullColumnRank([rw \in 0 .. (l - 1) |-> a0[rw]])

\* C14 (as claimed): calculate_i_symbols leaves the payloads stored in
\* self.symbols as they were received, and a second call in a row gives the
\* same intermediate symbols as the first.
C14_FrameAndIdempotent ==
    pc = "done" =>
        /\ \A j \in 1 .. Len(symbols) : symbols[j].payload = received0[j]
        /\ params # <<>> => i_symbols = params[1]

====
